---- MODULE Spec2Model ----
(***************************************************************************)
(* top-group: processes grouped by executable name, with per-group memory  *)
(* totals (src/src/lib.rs) and the report printed by src/src/main.rs.      *)
(*                                                                         *)
(* u64 arithmetic is modelled with a word of WordBits bits: a debug build  *)
(* panics on overflow, a release build wraps modulo 2^WordBits.  The build *)
(* is fixed when the program starts.                                       *)
(***************************************************************************)
EXTENDS Integers, Sequences, FiniteSets, TLC

\* ---------------------------------------------------------------- bounds
WordBits == 20
MaxProcs == 3
MaxItems == 3

Modulus == 2 ^ WordBits

\* ------------------------------------------------------------ input sets
\* Option::None of an Option<u64>
None == 0 - 1

\* kB figures the snapshot source may report: small ones and the largest word
KbVals == {0, 1, Modulus - 1}
SharedVals == {0, 1}

\* basenames are byte strings (OsString); ASCII bytes only
Basenames == {<<1, 2>>, <<2>>}

\* a path with no final component (file_name() is None)
NoFileName == << >>

Builds == {"debug", "release"}

\* What procfs returns for one process: exe(), status(), status.vmrss,
\* status.rssshmem.  A field the loop body never reads for that process is
\* held at one representative value.  The link /proc/<pid>/exe names a file,
\* so a path that exe() returns has a final component.  A kernel that does
\* not report RssShmem gives vmrss without rssshmem.
ProcShapes ==
    {[exe_ok |-> FALSE, file_name |-> NoFileName, status_ok |-> FALSE,
      vmrss |-> None, rssshmem |-> None]}
    \cup
    {[exe_ok |-> TRUE, file_name |-> b, status_ok |-> FALSE,
      vmrss |-> None, rssshmem |-> None] : b \in Basenames}
    \cup
    {[exe_ok |-> TRUE, file_name |-> b, status_ok |-> TRUE,
      vmrss |-> None, rssshmem |-> None] : b \in Basenames}
    \cup
    {[exe_ok |-> TRUE, file_name |-> b, status_ok |-> TRUE,
      vmrss |-> 0, rssshmem |-> None] : b \in Basenames}
    \cup
    {[exe_ok |-> TRUE, file_name |-> x[1], status_ok |-> TRUE,
      vmrss |-> x[2], rssshmem |-> x[3]] : x \in Basenames \X KbVals \X SharedVals}

\* the processes with a pid of pids
Processes(pids) ==
    {[pid |-> x[1], exe_ok |-> x[2].exe_ok, file_name |-> x[2].file_name,
      status_ok |-> x[2].status_ok, vmrss |-> x[2].vmrss,
      rssshmem |-> x[2].rssshmem] : x \in pids \X ProcShapes}

\* ----------------------------------------------------------- MemoryUsage
Default == [memory |-> 0, resident |-> 0, shared |-> 0]

Usages == [memory : KbVals, resident : KbVals, shared : SharedVals]

AddMixed(self, other) ==
    [memory   |-> (self.memory + other.resident) % Modulus,
     resident |-> (self.resident + other.resident) % Modulus,
     shared   |-> (self.shared + other.shared) % Modulus]

\* impl Add for MemoryUsage: the value a release build computes
Add(self, other) ==
    [memory   |-> (self.memory + other.memory) % Modulus,
     resident |-> (self.resident + other.resident) % Modulus,
     shared   |-> (self.shared + other.shared) % Modulus]

\* the same additions overflow, which a debug build turns into a panic
AddOverflows(self, other) ==
    \/ self.memory + other.memory >= Modulus
    \/ self.resident + other.resident >= Modulus
    \/ self.shared + other.shared >= Modulus

\* one step of iter.fold(MemoryUsage::default(), |acc, x| acc + x)
FoldAdd(res, x, b) ==
    IF ~res.ok THEN res
    ELSE IF b = "debug" /\ AddOverflows(res.value, x)
         THEN [ok |-> FALSE, value |-> Default]
         ELSE [ok |-> TRUE, value |-> Add(res.value, x)]

RECURSIVE SumFrom(_, _, _)
SumFrom(res, seq, b) ==
    IF seq = << >> THEN res
    ELSE SumFrom(FoldAdd(res, Head(seq), b), Tail(seq), b)

\* impl Sum for MemoryUsage
Sum(seq, b) == SumFrom([ok |-> TRUE, value |-> Default], seq, b)

\* --------------------------------------------------------- ProcessGroups
DefaultGroup == [pid_to_usage |-> << >>, usage_totals |-> Default]

InsertOnly(map, pid, usage) == [p \in {pid} |-> usage]

\* HashMap::insert: the value stored under an existing key is replaced
Insert(map, pid, usage) ==
    [p \in (DOMAIN map) \cup {pid} |-> IF p = pid THEN usage ELSE map[p]]

add_usage_last(self, pid, usage) ==
    [pid_to_usage |-> Insert(self.pid_to_usage, pid, usage),
     usage_totals |-> usage]

\* ProcessGroups::add_usage, when the addition does not panic
add_usage(self, pid, usage) ==
    [pid_to_usage |-> Insert(self.pid_to_usage, pid, usage),
     usage_totals |-> Add(self.usage_totals, usage)]

\* .entry(basename).or_insert(Default::default())
or_insert(groups, basename) ==
    IF basename \in DOMAIN groups THEN groups
    ELSE [n \in (DOMAIN groups) \cup {basename} |->
             IF n = basename THEN DefaultGroup ELSE groups[n]]

\* -------------------------------------------------- GroupedProcess::new
\* resident - shared on u64, as a release build computes it
Sub(resident, shared) == (resident - shared + Modulus) % Modulus

UsageOf(proc) ==
    [memory   |-> Sub(proc.vmrss, proc.rssshmem),
     resident |-> proc.vmrss,
     shared   |-> proc.rssshmem]

\* The checks of the loop body before the insertion, in source order:
\* "continue" skips the process, "panic" unwinds out of new(), "usage" goes on
\* to the insertion.
Validate(proc, b) ==
    IF ~proc.exe_ok THEN "continue"
    ELSE IF proc.file_name = NoFileName THEN "panic"
    ELSE IF ~proc.status_ok THEN "continue"
    ELSE IF proc.vmrss = None THEN "continue"
    ELSE IF proc.rssshmem = None THEN "panic"
    ELSE IF b = "debug" /\ proc.rssshmem > proc.vmrss THEN "panic"
    ELSE "usage"

LoopBodyEager(groups, proc, b) ==
    LET v == Validate(proc, b)
        made == IF proc.exe_ok /\ proc.file_name # NoFileName
                THEN or_insert(groups, proc.file_name) ELSE groups
    IN  IF v = "continue"
        THEN [panicked |-> FALSE, inserted |-> FALSE, groups |-> made]
        ELSE IF v = "panic"
        THEN [panicked |-> TRUE, inserted |-> FALSE, groups |-> made]
        ELSE LET usage == UsageOf(proc)
                 group == made[proc.file_name]
             IN  IF b = "debug" /\ AddOverflows(group.usage_totals, usage)
                 THEN [panicked |-> TRUE, inserted |-> TRUE,
                       groups |-> [made EXCEPT ![proc.file_name].pid_to_usage =
                                      Insert(group.pid_to_usage, proc.pid, usage)]]
                 ELSE [panicked |-> FALSE, inserted |-> TRUE,
                       groups |-> [made EXCEPT ![proc.file_name] =
                                      add_usage(group, proc.pid, usage)]]

\* One iteration of `for proc in procs`.  When the addition in add_usage
\* panics (debug build), the pid is already in the map and the totals are not
\* yet updated.
LoopBody(groups, proc, b) ==
    LET v == Validate(proc, b)
    IN  IF v = "continue"
        THEN [panicked |-> FALSE, inserted |-> FALSE, groups |-> groups]
        ELSE IF v = "panic"
        THEN [panicked |-> TRUE, inserted |-> FALSE, groups |-> groups]
        ELSE LET usage == UsageOf(proc)
                 entry == or_insert(groups, proc.file_name)
                 group == entry[proc.file_name]
             IN  IF b = "debug" /\ AddOverflows(group.usage_totals, usage)
                 THEN [panicked |-> TRUE, inserted |-> TRUE,
                       groups |-> [entry EXCEPT ![proc.file_name].pid_to_usage =
                                      Insert(group.pid_to_usage, proc.pid, usage)]]
                 ELSE [panicked |-> FALSE, inserted |-> TRUE,
                       groups |-> [entry EXCEPT ![proc.file_name] =
                                      add_usage(group, proc.pid, usage)]]

RECURSIVE NewFrom(_, _, _)
NewFrom(acc, seq, b) ==
    IF seq = << >> \/ acc.panicked THEN acc
    ELSE NewFrom(LoopBody(acc.groups, Head(seq), b), Tail(seq), b)

\* GroupedProcess::new over the processes seq: the snapshot, or a panic
New(seq, b) ==
    LET r == NewFrom([panicked |-> FALSE, inserted |-> FALSE, groups |-> << >>], seq, b)
    IN  [panicked |-> r.panicked,
         name_to_group |-> IF r.panicked THEN << >> ELSE r.groups]

\* ------------------------------------------------------------------ main
KbToBytes == 1000

\* Ord for OsStr: lexicographic on the bytes
OsStrLess(a, b) ==
    \E i \in 1 .. Len(b) :
        /\ i <= Len(a) + 1
        /\ \A j \in 1 .. (i - 1) : a[j] = b[j]
        /\ (i = Len(a) + 1 \/ a[i] < b[i])

KeyLessNameFirst(x, y) ==
    \/ OsStrLess(x.name, y.name)
    \/ (x.name = y.name /\ x.usage < y.usage)

\* Ord for the sort key (u64, &OsStr)
KeyLess(x, y) ==
    \/ x.usage < y.usage
    \/ (x.usage = y.usage /\ OsStrLess(x.name, y.name))

RECURSIVE InsertSorted(_, _)
InsertSorted(sorted, x) ==
    IF sorted = << >> THEN << x >>
    ELSE IF KeyLess(x, Head(sorted)) THEN << x >> \o sorted
    ELSE << Head(sorted) >> \o InsertSorted(Tail(sorted), x)

\* sort_unstable_by_key: the keys are pairwise different (the names are)
RECURSIVE SortByKey(_)
SortByKey(seq) ==
    IF seq = << >> THEN << >>
    ELSE InsertSorted(SortByKey(Tail(seq)), Head(seq))

\* the orders in which a HashMap with these keys may be iterated
Orderings(S) ==
    {s \in [1 .. Cardinality(S) -> S] : \A i, j \in DOMAIN s : i # j => s[i] # s[j]}

\* .iter().map(|(name, group)| (name, group.usage_totals().memory)).collect()
Collect(snapshot, order) ==
    [i \in 1 .. Len(order) |->
        [name |-> order[i], usage |-> snapshot[order[i]].usage_totals.memory]]

\* the printing loop: usage * 1000 panics on overflow in a debug build
RECURSIVE EmitFrom(_, _, _)
EmitFrom(out, rest, b) ==
    IF rest = << >> THEN [panicked |-> FALSE, lines |-> out]
    ELSE LET bytes == Head(rest).usage * KbToBytes
         IN  IF b = "debug" /\ bytes >= Modulus
             THEN [panicked |-> TRUE, lines |-> out]
             ELSE EmitFrom(Append(out, [name |-> Head(rest).name,
                                        usage_bytes |-> bytes % Modulus]),
                           Tail(rest), b)

\* ----------------------------------------------------------------- state
VARIABLES
    build,             \* debug or release: what an overflowing operation does
    pc,                \* "loop" (inside new), "built" (new returned), "rendered", "sum"
    panicked,          \* the program unwound with a panic
    consumed,          \* the processes the loop of new() has gone through, in order
    accepted,          \* those of them that reached add_usage: pid, basename, usage
    procs_grouped,     \* the local map of new()
    name_to_group,     \* GroupedProcess.name_to_group, once new() has returned
    proc_group_usage,  \* the sorted vector of main
    emitted,           \* the report lines written by main
    items,             \* the values an iterator of MemoryUsage has yielded to sum
    acc                \* the accumulator of the fold in sum

vars == << build, pc, panicked, consumed, accepted, procs_grouped, name_to_group,
           proc_group_usage, emitted, items, acc >>

sumVars == << items, acc >>
mainVars == << proc_group_usage, emitted >>

Init ==
    /\ build \in Builds
    /\ pc = "loop"
    /\ panicked = FALSE
    /\ consumed = << >>
    /\ accepted = << >>
    /\ procs_grouped = << >>
    /\ name_to_group = << >>
    /\ proc_group_usage = << >>
    /\ emitted = << >>
    /\ items = << >>
    /\ acc = [ok |-> TRUE, value |-> Default]

\* The code uses a pid only as a map key, so the pids are numbered in the
\* order in which the snapshot source first lists them: the next process has
\* the next number ...
FreshProcesses == Processes({Len(consumed) + 1})

\* ... or, when a pid is listed again (a process exited and its pid was
\* given to a new one while /proc was being read), a number already seen.
AnyProcesses == Processes(1 .. (Len(consumed) + 1))

Looping ==
    /\ pc = "loop"
    /\ ~panicked
    /\ Len(consumed) < MaxProcs

Consume(proc) ==
    /\ consumed' = Append(consumed, proc)
    /\ UNCHANGED << build, pc, name_to_group, mainVars, sumVars >>

\* an iteration that ends in `continue`
SkipRecord(source) ==
    /\ Looping
    /\ \E proc \in source :
        /\ Validate(proc, build) = "continue"
        /\ Consume(proc)
        /\ procs_grouped' = LoopBody(procs_grouped, proc, build).groups
        /\ UNCHANGED << panicked, accepted >>

\* an iteration that panics: expect, unwrap, or an overflow in a debug build
PanicRecord(source) ==
    /\ Looping
    /\ \E proc \in source :
        LET r == LoopBody(procs_grouped, proc, build)
        IN  /\ r.panicked
            /\ Consume(proc)
            /\ panicked' = TRUE
            /\ procs_grouped' = r.groups
            /\ accepted' = IF Validate(proc, build) = "usage"
                           THEN Append(accepted, [pid |-> proc.pid, name |-> proc.file_name,
                                                  usage |-> UsageOf(proc)])
                           ELSE accepted

\* an iteration that reaches add_usage and completes it
InsertRecord(source) ==
    /\ Looping
    /\ \E proc \in source :
        LET r == LoopBody(procs_grouped, proc, build)
        IN  /\ Validate(proc, build) = "usage"
            /\ ~r.panicked
            /\ Consume(proc)
            /\ procs_grouped' = r.groups
            /\ accepted' = Append(accepted, [pid |-> proc.pid, name |-> proc.file_name,
                                             usage |-> UsageOf(proc)])
            /\ UNCHANGED panicked

\* the iterator is exhausted: new() returns the snapshot
Finish ==
    /\ pc = "loop"
    /\ ~panicked
    /\ pc' = "built"
    /\ name_to_group' = procs_grouped
    /\ UNCHANGED << build, panicked, consumed, accepted, procs_grouped, mainVars, sumVars >>

\* main: collect, sort, write the lines
Render ==
    /\ pc = "built"
    /\ \E order \in Orderings(DOMAIN name_to_group) :
          LET sorted == SortByKey(Collect(name_to_group, order))
              out == EmitFrom(<< >>, sorted, build)
          IN  /\ proc_group_usage' = sorted
              /\ emitted' = out.lines
              /\ panicked' = out.panicked
    /\ pc' = "rendered"
    /\ UNCHANGED << build, consumed, accepted, procs_grouped, name_to_group, sumVars >>

\* The snapshot source lists every pid once.
Next ==
    \/ SkipRecord(FreshProcesses)
    \/ PanicRecord(FreshProcesses)
    \/ InsertRecord(FreshProcesses)
    \/ Finish
    \/ Render

Spec == Init /\ [][Next]_vars

\* The snapshot source may list a pid again.
NextReuse ==
    \/ SkipRecord(AnyProcesses)
    \/ PanicRecord(AnyProcesses)
    \/ InsertRecord(AnyProcesses)
    \/ Finish
    \/ Render

SpecReuse == Init /\ [][NextReuse]_vars

\* Sum::sum applied to the values of an iterator
InitSum ==
    /\ build \in Builds
    /\ pc = "sum"
    /\ panicked = FALSE
    /\ consumed = << >>
    /\ accepted = << >>
    /\ procs_grouped = << >>
    /\ name_to_group = << >>
    /\ proc_group_usage = << >>
    /\ emitted = << >>
    /\ items = << >>
    /\ acc = [ok |-> TRUE, value |-> Default]

SumStep ==
    /\ pc = "sum"
    /\ acc.ok
    /\ Len(items) < MaxItems
    /\ \E x \in Usages :
          /\ items' = Append(items, x)
          /\ acc' = FoldAdd(acc, x, build)
    /\ UNCHANGED << build, pc, panicked, consumed, accepted, procs_grouped,
                    name_to_group, mainVars >>

NextSum == SumStep

SpecSum == InitSum /\ [][NextSum]_vars

\* ------------------------------------------------------------ properties
\* the map new() has built so far, and returns
Snapshot == IF pc = "loop" THEN procs_grouped ELSE name_to_group

\* the process the last iteration went through
Last == consumed[Len(consumed)]

Iterated == pc = "loop" /\ Len(consumed') = Len(consumed) + 1

Permuted(seq, f) == [i \in 1 .. Len(seq) |-> seq[f[i]]]

\* the field-wise sum of the values of a pid_to_usage map
RECURSIVE MapSum(_)
MapSum(map) ==
    IF DOMAIN map = {} THEN Default
    ELSE LET p == CHOOSE q \in DOMAIN map : TRUE
         IN  Add(map[p], MapSum([q \in (DOMAIN map) \ {p} |-> map[q]]))

TotalsOf(groups, name) ==
    IF name \in DOMAIN groups THEN groups[name].usage_totals ELSE Default

\* C1: after every insertion, also of a pid that is already in the group,
\* each group's usage_totals is the field-wise sum of the values its
\* pid_to_usage map holds.  (Stated for usages with shared <= resident, so
\* that no wrapped memory figure is involved.)
C1_TotalsInvariant ==
    (~panicked /\ \A i \in DOMAIN accepted : accepted[i].usage.shared <= accepted[i].usage.resident) =>
        \A name \in DOMAIN procs_grouped :
            procs_grouped[name].usage_totals = MapSum(procs_grouped[name].pid_to_usage)

SharedAboveResident(proc) ==
    /\ Validate(proc, "release") = "usage"
    /\ proc.rssshmem > proc.vmrss

\* C2: a process whose shared size is greater than its resident size adds no
\* pid and changes no totals (it is skipped, or the aggregation fails).
C2_RejectsSharedAboveResident ==
    [][(Iterated /\ SharedAboveResident(Last')) => procs_grouped' = procs_grouped]_vars

MissingFigure(proc) ==
    \/ ~proc.exe_ok
    \/ proc.file_name = NoFileName
    \/ ~proc.status_ok
    \/ proc.vmrss = None
    \/ proc.rssshmem = None

\* C3: a process whose path, basename, status, resident or shared figure is
\* not available is skipped: the pass goes on and no group changes.
C3_SkipsMissingFigure ==
    [][(Iterated /\ MissingFigure(Last')) =>
          (~panicked' /\ pc' = "loop" /\ procs_grouped' = procs_grouped)]_vars

MemoryOf(name) == name_to_group[name].usage_totals.memory

OneLinePerGroup ==
    /\ Len(emitted) = Cardinality(DOMAIN name_to_group)
    /\ {emitted[i].name : i \in DOMAIN emitted} = DOMAIN name_to_group

C5_Grouping ==
    \A i, j \in DOMAIN accepted :
        LET a == accepted[i]
            c == accepted[j]
        IN  (i # j /\ a.pid # c.pid) =>
               /\ a.name \in DOMAIN procs_grouped
               /\ c.name \in DOMAIN procs_grouped
               /\ a.pid \in DOMAIN procs_grouped[a.name].pid_to_usage
               /\ procs_grouped[a.name].pid_to_usage[a.pid] = a.usage
               /\ c.pid \in DOMAIN procs_grouped[c.name].pid_to_usage
               /\ procs_grouped[c.name].pid_to_usage[c.pid] = c.usage
               /\ a.name # c.name =>
                     /\ a.pid \notin DOMAIN procs_grouped[c.name].pid_to_usage
                     /\ c.pid \notin DOMAIN procs_grouped[a.name].pid_to_usage

C5_Witness ==
    /\ Len(accepted) = 3
    /\ accepted[1].name = accepted[2].name
    /\ accepted[1].usage # accepted[2].usage
    /\ accepted[3].name # accepted[1].name

\* C6: every stored usage has shared <= resident and memory = resident - shared.
C6_DerivedField ==
    \A name \in DOMAIN procs_grouped :
        \A pid \in DOMAIN procs_grouped[name].pid_to_usage :
            LET u == procs_grouped[name].pid_to_usage[pid]
            IN  u.shared <= u.resident /\ u.memory = u.resident - u.shared

\* C7: when new() has ended, by returning or by a panic, every permutation of
\* the processes it went through gives the same outcome: the same panic, or
\* the same snapshot (basenames, pid maps and totals).
C7_OrderIndependent ==
    (pc = "built" \/ (pc = "loop" /\ panicked)) =>
        \A f \in Permutations(1 .. Len(consumed)) :
            New(Permuted(consumed, f), build) =
                [panicked |-> panicked, name_to_group |-> name_to_group]

C7_Witness ==
    /\ pc = "built"
    /\ Len(consumed) = 3
    /\ Len(accepted) = 3
    /\ accepted[1].name = accepted[2].name
    /\ accepted[1].usage # accepted[2].usage
    /\ accepted[3].name # accepted[1].name
    /\ name_to_group = procs_grouped

\* the sum of two partial sums
Join(l, r, b) == IF ~r.ok THEN r ELSE FoldAdd(l, r.value, b)

\* C8: addition is field-wise and commutative, the all-zero value is its
\* identity, and the sum of the values is the same for every order and
\* grouping of them; the sum of no values is all-zero.
C8_CombineLaws ==
    pc = "sum" =>
        /\ \A f \in Permutations(1 .. Len(items)) : Sum(Permuted(items, f), build) = acc
        /\ \A k \in 0 .. Len(items) :
              Join(Sum(SubSeq(items, 1, k), build),
                   Sum(SubSeq(items, k + 1, Len(items)), build), build) = acc
        /\ \A i, j \in DOMAIN items :
              /\ Add(items[i], items[j]) = Add(items[j], items[i])
              /\ AddOverflows(items[i], items[j]) = AddOverflows(items[j], items[i])
              /\ Add(items[i], items[j]).memory = (items[i].memory + items[j].memory) % Modulus
              /\ Add(items[i], items[j]).resident = (items[i].resident + items[j].resident) % Modulus
              /\ Add(items[i], items[j]).shared = (items[i].shared + items[j].shared) % Modulus
        /\ \A i \in DOMAIN items :
              /\ Add(Default, items[i]) = items[i]
              /\ Add(items[i], Default) = items[i]
              /\ ~AddOverflows(Default, items[i])
        /\ items = << >> => acc = [ok |-> TRUE, value |-> Default]

C8_Witness ==
    /\ pc = "sum"
    /\ Len(items) = 3
    /\ acc.ok
    /\ items[1] # items[2]
    /\ items[2] # items[3]
    /\ items[1].memory # items[1].resident
    /\ acc.value.memory # acc.value.resident

WellFormed(proc) ==
    /\ ~MissingFigure(proc)
    /\ proc.rssshmem <= proc.vmrss

\* C9: the insertion of a usage never fails, and every field of the group's
\* totals grows by exactly the field of the usage, so it never gets smaller.
\* (Stated for usages with shared <= resident, so that no wrapped memory
\* figure is involved.)
C9_CombineTotal ==
    [][(/\ Iterated
        /\ WellFormed(Last')
        /\ \A i \in DOMAIN accepted : accepted[i].usage.shared <= accepted[i].usage.resident) =>
          LET name == Last'.file_name
              usage == UsageOf(Last')
              old == TotalsOf(procs_grouped, name)
              new == TotalsOf(procs_grouped', name)
          IN  /\ ~panicked'
              /\ new.memory = old.memory + usage.memory
              /\ new.resident = old.resident + usage.resident
              /\ new.shared = old.shared + usage.shared]_vars

\* C10: a basename is a key of the snapshot exactly when an accepted process
\* with that basename was inserted, and no group has an empty pid map.
C10_GroupExists ==
    pc \in {"loop", "built", "rendered"} =>
        /\ DOMAIN Snapshot = {accepted[i].name : i \in DOMAIN accepted}
        /\ \A name \in DOMAIN Snapshot : DOMAIN Snapshot[name].pid_to_usage # {}
        /\ accepted = << >> => Snapshot = << >>

C10_Witness ==
    /\ pc = "built"
    /\ \E i \in DOMAIN consumed :
          /\ consumed[i].file_name # NoFileName
          /\ consumed[i].file_name \notin DOMAIN name_to_group
    /\ DOMAIN name_to_group # {}

====
